---- MODULE Spec2Model ----
(***************************************************************************)
(* Model of kordesii/utils/function_tracing/flowchart.py: the FlowChart   *)
(* path enumerator (get_paths / _build_path) with its two caches, and the *)
(* per-PathBlock incremental cpu context (PathBlock.cpu_context).          *)
(***************************************************************************)
EXTENDS Integers, Sequences, FiniteSets, TLC

(***************************************************************************)
(* Bounds of the model.                                                    *)
(***************************************************************************)
\* number of get_paths generator objects the callers create
NumCalls == 2
\* number of cpu_context calls made on the PathBlocks of one flowchart
MaxQueries == 3

(***************************************************************************)
(* The function under analysis: four basic blocks laid out in address      *)
(* order, with a two-byte instruction in block 1 (address 1 is not a head) *)
(* and one undefined byte (address 8) between block 3 and block 4.         *)
(***************************************************************************)
Blocks == {1, 2, 3, 4}

start_ea(b) == CASE b = 1 -> 0 [] b = 2 -> 3 [] b = 3 -> 5 [] OTHER -> 9

end_ea(b) == CASE b = 1 -> 3 [] b = 2 -> 5 [] b = 3 -> 8 [] OTHER -> 11

\* self.f.start_ea, self.f.end_ea
FuncStart == start_ea(1)

FuncEnd == end_ea(4)

\* addresses at which an item (instruction) starts
HeadSet == {0, 2, 3, 4, 5, 6, 7, 9, 10}

\* idaapi.BADADDR: larger than every address
BADADDR == FuncEnd + 100

\* no block / no PathBlock / no address (Python None)
None == 0 - 1

Min(S) == CHOOSE x \in S : \A y \in S : x <= y

\* a finite set of integers as an ascending sequence (sorted(...))
RECURSIVE Sorted(_)
Sorted(S) == IF S = {} THEN << >> ELSE << Min(S) >> \o Sorted(S \ {Min(S)})

Reverse(s) == [i \in 1..Len(s) |-> s[Len(s) + 1 - i]]

\* idautils.Heads(a, b): the heads in [a, b), ascending
Heads(a, b) == Sorted({h \in HeadSet : a <= h /\ h < b})

\* idc.next_head(ea): the first head after ea, BADADDR when there is none
next_head(ea) ==
    IF \E h \in HeadSet : h > ea THEN Min({h \in HeadSet : h > ea}) ELSE BADADDR

\* the edges a flowchart may have: forward edges, two back edges and a self
\* loop; a flowchart has any subset of them
EdgeUniverse ==
    { <<1, 2>>, <<1, 3>>, <<2, 3>>, <<2, 4>>, <<3, 4>>,
      <<3, 2>>, <<4, 1>>, <<2, 2>> }

VARIABLES
    edges,       \* the successor edges of the flowchart (fixed after Init)
    predOrder,   \* order in which preds() lists predecessors: "asc" or "desc"
    nodes,       \* every PathBlock created so far: nodes[id] = [bb, prev, gen]
    path_cache,  \* FlowChart._path_cache: block -> sequence of PathBlock ids
    gen_cache,   \* FlowChart._gen_cache: block -> _build_path generator state
    calls,       \* the get_paths generator objects held by callers
    ctx,         \* PathBlock._context per PathBlock id (None or object id)
    ctx_ea,      \* PathBlock._context_ea per PathBlock id (None or address)
    heap,        \* ProcessorContext objects: heap[obj] = instructions applied
    bad,         \* instructions the emulator cannot apply
    queries,     \* record of the cpu_context calls made so far
    fwd,         \* the paths_to_ea generator object held by a caller
    trav,        \* the reverse traversal generator object held by a caller
    rep          \* a kordesiireporter object and the temporary objects on disk

vars == << edges, predOrder, nodes, path_cache, gen_cache, calls,
           ctx, ctx_ea, heap, bad, queries, fwd, trav, rep >>

enumVars == << edges, predOrder, nodes, path_cache, gen_cache, calls >>

replayVars == << ctx, ctx_ea, heap, bad, queries >>

otherVars == << fwd, trav, rep >>

(***************************************************************************)
(* CustomBasicBlock / FlowChart helpers                                    *)
(***************************************************************************)
\* cur_block.preds(), in the order the flowchart provider lists them
Preds(E, ord, b) ==
    LET s == Sorted({a \in Blocks : <<a, b>> \in E})
    IN  IF ord = "asc" THEN s ELSE Reverse(s)

\* FlowChart.find_block(ea): the block containing ea, None when there is none
find_block(ea) ==
    IF \E b \in Blocks : start_ea(b) <= ea /\ ea < end_ea(b)
    THEN CHOOSE b \in Blocks : start_ea(b) <= ea /\ ea < end_ea(b)
    ELSE None

\* PathBlock(bb, prev) created by the generator of target block g
PathBlock(bb, prev, g) == [bb |-> bb, prev |-> prev, gen |-> g]

(***************************************************************************)
(* FlowChart._build_path as a suspended generator: a stack of frames, one  *)
(* per active recursive call, the last one being the innermost.            *)
(*   pc = "start": the call has not run yet                                *)
(*   pc = "root" : suspended at the yield of the parent-less PathBlock     *)
(*   pc = "loop" : in the loop over cb_parents, i parents consumed         *)
(*   pc = "cache": in the loop over path_cache, i entries consumed         *)
(***************************************************************************)
Frame(b) == [bb |-> b, pc |-> "start", i |-> 0]

\* self._build_path(block): a generator that has not run yet
NewGenerator(b) == [exists |-> TRUE, frames |-> << Frame(b) >>, visited |-> {}]

NoGenerator == [exists |-> FALSE, frames |-> << >>, visited |-> {}]

SetLast(frames, f) == [frames EXCEPT ![Len(frames)] = f]

DropLast(frames) == SubSeq(frames, 1, Len(frames) - 1)

\* the comparison of line 472 inverted
SkipParent_inverted(blk, cb, visited) ==
    start_ea(blk) \in visited \/ start_ea(blk) < start_ea(cb)

\* line 472 without the comparison of the start addresses
SkipParent_visited_only(blk, cb, visited) == start_ea(blk) \in visited

\* line 472: the parents _build_path does not follow
SkipParent(blk, cb, visited) ==
    start_ea(blk) \in visited \/ start_ea(blk) > start_ea(cb)

\* Runs the innermost frame until it yields or the whole generator returns.
\* Result: the new frames and visited set, the PathBlock table, and val, the
\* id of the PathBlock yielded by the innermost frame (None: generator done).
RECURSIVE RunInner(_, _, _, _, _, _, _)
RunInner(E, ord, cache, g, frames, visited, N) ==
    IF frames = << >>
    THEN [frames |-> << >>, visited |-> visited, nodes |-> N, val |-> None]
    ELSE
      LET f == frames[Len(frames)]
          cb == f.bb
          parents == Preds(E, ord, cb)
          \* line 486 and the return to the calling frame
          return == RunInner(E, ord, cache, g, DropLast(frames),
                             visited \ {start_ea(cb)}, N)
      IN
      CASE f.pc = "start" ->
             LET v == visited \cup {start_ea(cb)} IN
             IF Len(cache[cb]) = 0
             THEN IF Len(parents) = 0
                  THEN [frames |-> SetLast(frames, [f EXCEPT !.pc = "root"]),
                        visited |-> v,
                        nodes |-> Append(N, PathBlock(cb, None, g)),
                        val |-> Len(N) + 1]
                  ELSE RunInner(E, ord, cache, g,
                                SetLast(frames, [f EXCEPT !.pc = "loop"]), v, N)
             ELSE RunInner(E, ord, cache, g,
                           SetLast(frames, [f EXCEPT !.pc = "cache"]), v, N)
        [] f.pc = "root" -> return
        [] f.pc = "loop" ->
             IF f.i >= Len(parents)
             THEN return
             ELSE LET block == parents[f.i + 1]
                      adv == SetLast(frames, [f EXCEPT !.i = f.i + 1])
                  IN  IF SkipParent(block, cb, visited)
                      THEN RunInner(E, ord, cache, g, adv, visited, N)
                      ELSE RunInner(E, ord, cache, g,
                                    Append(adv, Frame(block)), visited, N)
        [] OTHER ->
             IF f.i < Len(cache[cb])
             THEN [frames |-> SetLast(frames, [f EXCEPT !.i = f.i + 1]),
                   visited |-> visited,
                   nodes |-> N,
                   val |-> cache[cb][f.i + 1]]
             ELSE return

\* line 477, once per suspended calling frame from the innermost outwards:
\* each wraps the PathBlock it received in a new PathBlock of its own block
RECURSIVE Wrap(_, _, _, _, _)
Wrap(frames, k, g, N, val) ==
    IF k = 0
    THEN [nodes |-> N, val |-> val]
    ELSE Wrap(frames, k - 1, g, Append(N, PathBlock(frames[k].bb, val, g)),
              Len(N) + 1)

\* next(path_generator): val is the PathBlock the generator yields, or None
\* when it is exhausted
NextPath(E, ord, cache, g, gen, N) ==
    LET r == RunInner(E, ord, cache, g, gen.frames, gen.visited, N)
        gen2 == [exists |-> TRUE, frames |-> r.frames, visited |-> r.visited]
    IN  IF r.val = None
        THEN [gen |-> gen2, nodes |-> r.nodes, val |-> None]
        ELSE LET w == Wrap(r.frames, Len(r.frames) - 1, g, r.nodes, r.val)
             IN  [gen |-> gen2, nodes |-> w.nodes, val |-> w.val]

(***************************************************************************)
(* FlowChart.get_paths                                                     *)
(***************************************************************************)
\* lines 514-517 without the lookup: a new generator on every call
GetGenerator_always_new(gc, b) == NewGenerator(b)

\* lines 514-517: the generator of the block, created when there is none
GetGenerator(gc, b) == IF gc[b].exists THEN gc[b] ELSE NewGenerator(b)

\* line 521 inserting at the front of the list
CacheAppend_front(cache, N, p) == [cache EXCEPT ![N[p].bb] = << p >> \o @]

\* line 521 left out
CacheAppend_skipped(cache, N, p) == cache

\* line 521: self._path_cache[path.bb.start_ea].append(path)
CacheAppend(cache, N, p) == [cache EXCEPT ![N[p].bb] = Append(@, p)]

\* line 510: the next cached path of the block, for an iteration that has
\* consumed idx of them
CachedPath(cache, b, idx) == cache[b][idx + 1]

\* get_paths for block b consumed to exhaustion on a flowchart on which
\* nothing else has run: the PathBlocks created and the paths yielded
RECURSIVE Exhaust(_, _, _, _, _, _)
Exhaust(E, ord, b, gen, N, acc) ==
    LET r == NextPath(E, ord, [x \in Blocks |-> IF x = b THEN acc ELSE << >>],
                      b, gen, N)
    IN  IF r.val = None THEN [nodes |-> r.nodes, out |-> acc]
        ELSE Exhaust(E, ord, b, r.gen, r.nodes, Append(acc, r.val))

\* a get_paths generator object held by a caller.  st: "none" (not created),
\* "cached" (suspended in the loop of line 510), "gen" (suspended in the loop
\* of line 520), "done" (returned), "error" (raised).  out: the PathBlocks it
\* has yielded.  seen[d]: how many PathBlocks call d had yielded when this
\* generator first ran.
NewCall == [st |-> "none", blk |-> None, idx |-> 0, out |-> << >>,
            seen |-> [d \in 1..NumCalls |-> 0], err |-> "", ea |-> None]

OutLens == [d \in 1..NumCalls |-> Len(calls[d].out)]

\* generator objects are interchangeable: they are created in index order
MayCreate(c) ==
    /\ calls[c].st = "none"
    /\ c > 1 => calls[c - 1].st # "none"

\* next() finds another cached path in the loop of line 510
YieldCached(c, b, seen) ==
    /\ b # None
    /\ calls[c].idx < Len(path_cache[b])
    /\ calls' = [calls EXCEPT ![c] =
                   [st |-> "cached", blk |-> b, idx |-> calls[c].idx + 1,
                    out |-> Append(calls[c].out,
                                   CachedPath(path_cache, b, calls[c].idx)),
                    seen |-> seen]]
    /\ UNCHANGED << edges, predOrder, nodes, path_cache, gen_cache >>
    /\ UNCHANGED replayVars
    /\ UNCHANGED otherVars

\* next() is past the cached paths (line 514) and draws from the block's
\* _build_path generator (lines 520-522)
YieldBuilt(c, b, seen) ==
    /\ b # None
    /\ calls[c].st # "gen" => calls[c].idx >= Len(path_cache[b])
    /\ LET r == NextPath(edges, predOrder, path_cache, b,
                         GetGenerator(gen_cache, b), nodes)
       IN  /\ gen_cache' = [gen_cache EXCEPT ![b] = r.gen]
           /\ nodes' = r.nodes
           /\ IF r.val = None
              THEN /\ path_cache' = path_cache
                   /\ calls' = [calls EXCEPT ![c] =
                        [@ EXCEPT !.st = "done", !.blk = b, !.seen = seen]]
              ELSE /\ path_cache' = CacheAppend(path_cache, r.nodes, r.val)
                   /\ calls' = [calls EXCEPT ![c] =
                        [@ EXCEPT !.st = "gen", !.blk = b, !.seen = seen,
                                  !.out = Append(@, r.val)]]
    /\ UNCHANGED << edges, predOrder >>
    /\ UNCHANGED replayVars
    /\ UNCHANGED otherVars

\* g = fc.get_paths(ea); next(g), for an address that lies in no block:
\* find_block returns None, line 508 raises AttributeError on block.start_ea
\* and the generator is finished.  err, ea: the error and the address asked.
FirstNextRaises(c, ea) ==
    /\ MayCreate(c)
    /\ find_block(ea) = None
    /\ calls' = [calls EXCEPT ![c] = [@ EXCEPT !.st = "error", !.seen = OutLens,
                                            !.err = "AttributeError",
                                            !.ea = ea]]
    /\ UNCHANGED << edges, predOrder, nodes, path_cache, gen_cache >>
    /\ UNCHANGED replayVars
    /\ UNCHANGED otherVars

\* g = fc.get_paths(ea); next(g), yielding a path cached by earlier calls
FirstNextCached(c, ea) ==
    /\ MayCreate(c)
    /\ YieldCached(c, find_block(ea), OutLens)

\* g = fc.get_paths(ea); next(g), with no cached path for the block
FirstNextBuilt(c, ea) ==
    /\ MayCreate(c)
    /\ YieldBuilt(c, find_block(ea), OutLens)

\* a later next(g) that yields a cached path
NextCached(c) ==
    /\ calls[c].st = "cached"
    /\ YieldCached(c, calls[c].blk, calls[c].seen)

\* a later next(g) that draws from the _build_path generator
NextBuilt(c) ==
    /\ calls[c].st \in {"cached", "gen"}
    /\ YieldBuilt(c, calls[c].blk, calls[c].seen)

\* addresses callers ask paths for: one or two per block, the undefined byte
\* between blocks 3 and 4, and the first address after the function
TargetAddrs == {0, 1, 3, 5, 8, 9, 11}

(***************************************************************************)
(* PathBlock.cpu_context.  ProcessorContext objects live in heap; a context *)
(* is the sequence of instructions applied to the default context.         *)
(***************************************************************************)
\* ProcessorContext(): a new default context
NewContext(H) == Append(H, << >>)

\* deepcopy(obj): a new object with the same contents
DeepCopy(H, obj) == Append(H, H[obj])

\* processor.execute(context, ip) for each ip of ips in turn, in place; stops
\* at the first instruction the emulator cannot apply, which raises
RECURSIVE ExecuteAll(_, _, _, _)
ExecuteAll(H, obj, ips, B) ==
    IF ips = << >> THEN [heap |-> H, err |-> ""]
    ELSE IF Head(ips) \in B THEN [heap |-> H, err |-> "Unresolved"]
    ELSE ExecuteAll([H EXCEPT ![obj] = Append(@, Head(ips))], obj, Tail(ips), B)

\* line 81 returning the cached object itself
ReturnCopy_shared(H, obj) == [heap |-> H, obj |-> obj]

\* line 81: return deepcopy(self._context)
ReturnCopy(H, obj) == [heap |-> DeepCopy(H, obj), obj |-> Len(H) + 1]

\* lines 52-54 accepting the end address of the block
NotInBlock_end_included(bb, ea) ==
    ea # None /\ ~ (start_ea(bb) <= ea /\ ea <= end_ea(bb))

\* lines 52-54
NotInBlock(bb, ea) == ea # None /\ ~ (start_ea(bb) <= ea /\ ea < end_ea(bb))

\* lines 57-60: the address to stop computing at
StopAddress(bb, ea) == IF ea = None THEN end_ea(bb) ELSE next_head(ea)

\* line 66 without the test for a context filled past the requested end
NeedsNewContext_no_rewind(c, cea, end) == c = None

\* line 66 always taken: the context is rebuilt on every call
NeedsNewContext_always(c, cea, end) == TRUE

\* line 66: no context yet, or the context goes past the requested end
NeedsNewContext(c, cea, end) == c = None \/ cea > end

\* PathBlock.cpu_context(ea) on PathBlock n, in the state S = [ctx, ctx_ea,
\* heap].  Result: the new state, err ("" when the call returns), obj, the
\* object returned, at, the PathBlock whose cpu_context raised, and applies,
\* the number of instructions processor.execute has applied.
RECURSIVE cpu_context(_, _, _, _, _)
cpu_context(N, B, n, ea, S) ==
    LET bb == N[n].bb
        end == StopAddress(bb, ea)
    IN
    IF NotInBlock(bb, ea)
    THEN [S |-> S, err |-> "KeyError", obj |-> None, at |-> n, applies |-> 0]
    ELSE IF S.ctx_ea[n] = end
    THEN LET c == ReturnCopy(S.heap, S.ctx[n])
         IN  [S |-> [S EXCEPT !.heap = c.heap],
              err |-> "", obj |-> c.obj, at |-> None, applies |-> 0]
    ELSE
      LET \* lines 66-73
          base ==
            IF NeedsNewContext(S.ctx[n], S.ctx_ea[n], end)
            THEN IF N[n].prev # None
                 THEN LET r == cpu_context(N, B, N[n].prev, None, S)
                      IN  IF r.err # ""
                          THEN [S |-> r.S, err |-> r.err, at |-> r.at,
                                applies |-> r.applies]
                          ELSE [S |-> [r.S EXCEPT !.ctx[n] = r.obj,
                                                  !.ctx_ea[n] = start_ea(bb)],
                                err |-> "", at |-> None, applies |-> r.applies]
                 ELSE [S |-> [S EXCEPT !.heap = NewContext(S.heap),
                                       !.ctx[n] = Len(S.heap) + 1,
                                       !.ctx_ea[n] = start_ea(bb)],
                       err |-> "", at |-> None, applies |-> 0]
            ELSE [S |-> S, err |-> "", at |-> None, applies |-> 0]
      IN
      IF base.err # ""
      THEN [S |-> base.S, err |-> base.err, obj |-> None, at |-> base.at,
            applies |-> base.applies]
      ELSE
        LET \* lines 76-77
            obj == base.S.ctx[n]
            x == ExecuteAll(base.S.heap, obj, Heads(base.S.ctx_ea[n], end), B)
            applied == Len(x.heap[obj]) - Len(base.S.heap[obj])
        IN
        IF x.err # ""
        THEN [S |-> [base.S EXCEPT !.heap = x.heap], err |-> x.err, obj |-> None,
              at |-> n, applies |-> base.applies + applied]
        ELSE \* lines 79-81
             LET c == ReturnCopy(x.heap, obj)
             IN  [S |-> [base.S EXCEPT !.heap = c.heap, !.ctx_ea[n] = end],
                  err |-> "", obj |-> c.obj, at |-> None,
                  applies |-> base.applies + applied]

\* what a caller writes into a context it was given: no instruction address
Scribble == BADADDR

\* the contexts returned to callers that a caller has since written to
Scribbled == {k \in 1..Len(queries) :
                queries[k].err = "" /\ heap[queries[k].obj] # queries[k].val}

\* the addresses cpu_context is asked for on a PathBlock of block bb: none,
\* every address of the block, and the first address after the block
QueryAddrs(bb) == {None} \cup (start_ea(bb)..end_ea(bb))

\* path_block.cpu_context(ea), called by a user of the paths
CpuContext(n, ea) ==
    /\ Len(queries) + Cardinality(Scribbled) < MaxQueries
    /\ LET r == cpu_context(nodes, bad, n, ea,
                            [ctx |-> ctx, ctx_ea |-> ctx_ea, heap |-> heap])
       IN  /\ ctx' = r.S.ctx
           /\ ctx_ea' = r.S.ctx_ea
           /\ heap' = r.S.heap
           /\ queries' = Append(queries,
                 [node |-> n, ea |-> ea, err |-> r.err, obj |-> r.obj, at |-> r.at,
                  applies |-> r.applies,
                  val |-> IF r.err = "" THEN r.S.heap[r.obj] ELSE << >>])
    /\ UNCHANGED << bad >>
    /\ UNCHANGED enumVars
    /\ UNCHANGED otherVars

\* the caller changes the context that the k-th cpu_context call returned
MutateReturned(k) ==
    /\ Len(queries) + Cardinality(Scribbled) < MaxQueries
    /\ queries[k].err = ""
    /\ k \notin Scribbled
    /\ heap' = [heap EXCEPT ![queries[k].obj] = Append(@, Scribble)]
    /\ UNCHANGED << ctx, ctx_ea, bad, queries >>
    /\ UNCHANGED enumVars
    /\ UNCHANGED otherVars

(***************************************************************************)
(* FlowChart.paths_to_ea / _paths_to_ea: the paths of blocks from the      *)
(* first block to the block containing an address, found by a recursive    *)
(* depth-first search that keeps no cache.                                 *)
(***************************************************************************)
\* cur_block.succs(), in the order the flowchart provider lists them
Succs(E, ord, b) ==
    LET s == Sorted({a \in Blocks : <<b, a>> \in E})
    IN  IF ord = "asc" THEN s ELSE Reverse(s)

\* line 435
InFunction(ea) == FuncStart <= ea /\ ea < FuncEnd

\* line 410 without the comparison with the end of the block
AtTarget_no_end(ea, cur_block) == start_ea(cur_block) <= ea

\* line 410: cur_block is the block of ea
AtTarget(ea, cur_block) == start_ea(cur_block) <= ea /\ ea < end_ea(cur_block)

\* _paths_to_ea(ea, cur_block, visited, cur_path): the paths it yields, in
\* order.  visited and cur_path are as the caller left them: lines 422-423
\* undo what lines 407-408 did before the caller goes on.
RECURSIVE paths_from(_, _, _, _, _, _)
RECURSIVE paths_over(_, _, _, _, _, _)
paths_from(E, ord, ea, cur_block, visited, cur_path) ==
    LET path == Append(cur_path, cur_block)
        found == IF AtTarget(ea, cur_block) THEN << path >> ELSE << >>
    IN  found \o paths_over(E, ord, ea, Succs(E, ord, cur_block),
                            visited \cup {cur_block}, path)

\* lines 414-419: the loop over the successors
paths_over(E, ord, ea, blocks, visited, cur_path) ==
    IF blocks = << >> THEN << >>
    ELSE (IF Head(blocks) \in visited THEN << >>
          ELSE paths_from(E, ord, ea, Head(blocks), visited, cur_path))
         \o paths_over(E, ord, ea, Tail(blocks), visited, cur_path)

\* every path paths_to_ea(ea) yields when run to its end (line 438)
AllPathsToEa(E, ord, ea) == paths_from(E, ord, ea, 1, {}, << >>)

\* a paths_to_ea generator object nobody has created yet
NewForward == [st |-> "none", ea |-> None, err |-> "", out |-> << >>]

\* g = fc.paths_to_ea(ea); next(g): the body starts running at the first
\* next, which raises ValueError (line 436), yields the first path, or
\* returns when there is none
ForwardFirstNext(ea) ==
    /\ fwd.st = "none"
    /\ fwd' = IF ~ InFunction(ea)
              THEN [st |-> "error", ea |-> ea, err |-> "ValueError", out |-> << >>]
              ELSE LET all == AllPathsToEa(edges, predOrder, ea)
                   IN  IF all = << >>
                       THEN [st |-> "done", ea |-> ea, err |-> "", out |-> << >>]
                       ELSE [st |-> "running", ea |-> ea, err |-> "",
                             out |-> << all[1] >>]
    /\ UNCHANGED enumVars
    /\ UNCHANGED replayVars
    /\ UNCHANGED << trav, rep >>

\* next(g) on a paths_to_ea generator that has yielded before
ForwardNext ==
    /\ fwd.st = "running"
    /\ LET all == AllPathsToEa(edges, predOrder, fwd.ea)
       IN  fwd' = IF Len(fwd.out) < Len(all)
                  THEN [fwd EXCEPT !.out = Append(@, all[Len(fwd.out) + 1])]
                  ELSE [fwd EXCEPT !.st = "done"]
    /\ UNCHANGED enumVars
    /\ UNCHANGED replayVars
    /\ UNCHANGED << trav, rep >>

(***************************************************************************)
(* FlowChart._dfs_reverse / _bfs_reverse: the traversal from a block       *)
(* towards the blocks it is reached from.                                  *)
(***************************************************************************)
MaxYield == 8

\* `if start_ea:` of lines 195 and 299: None and 0 both count as not given
StartGiven(start) == start # None /\ start # 0

\* lines 195-198, 299-302: the initial work list.  sorted(..., reverse=True)
\* lists the blocks by descending start_ea and [-1:] keeps its last element
ReverseSeed(start) ==
    IF StartGiven(start)
    THEN << find_block(start) >>
    ELSE LET desc == Reverse(Sorted(Blocks))
         IN  SubSeq(desc, Len(desc), Len(desc))

\* the test of lines 203-205 and 307-309 without the comparison
FollowPred_any(pred, cur_block) == TRUE

\* the test of lines 203-205 and 307-309
FollowPred(pred, cur_block) == start_ea(pred) < start_ea(cur_block)

\* the predecessors put on the work list for cur_block: sorted by descending
\* start_ea, those the test lets through
ReversePreds(E, cur_block) ==
    SelectSeq(Reverse(Sorted({a \in Blocks : <<a, cur_block>> \in E})),
              LAMBDA pred : FollowPred(pred, cur_block))

\* a traversal generator object nobody has created yet.  kind: "dfs" or
\* "bfs"; reverse, start: the arguments; non_visited, visited, block_found:
\* the locals of the block traversal; out: the blocks it has yielded.  For
\* an instruction-level generator (level "heads"): first_block, the flag of
\* line 243 / 347, pending, the heads of the current block still to yield,
\* heads, the addresses yielded.
NewTraversal == [st |-> "none", kind |-> "", start |-> None,
                 non_visited |-> << >>, out |-> << >>, err |-> "",
                 reverse |-> TRUE, visited |-> {}, block_found |-> FALSE,
                 level |-> "blocks", first_block |-> TRUE,
                 pending |-> << >>, heads |-> << >>]

\* one round of the while loop of lines 200-206 ("dfs") or 304-310 ("bfs"),
\* from the work list nv, up to the yield, the return or the failure
ReverseRound(t, nv) ==
    IF nv = << >> THEN [t EXCEPT !.st = "done", !.non_visited = << >>]
    ELSE LET cur_block == Head(nv)
         IN  IF cur_block = None
             THEN [t EXCEPT !.st = "error", !.err = "AttributeError",
                            !.non_visited = Tail(nv)]
             ELSE [t EXCEPT !.st = "running",
                            !.non_visited =
                               IF t.kind = "dfs"
                               THEN ReversePreds(edges, cur_block) \o Tail(nv)
                               ELSE Tail(nv) \o ReversePreds(edges, cur_block),
                            !.out = Append(@, cur_block)]

\* g = fc._dfs_reverse(start) or fc._bfs_reverse(start); next(g)
ReverseFirstNext(kind, start) ==
    /\ trav.st = "none"
    /\ trav' = ReverseRound([NewTraversal EXCEPT !.kind = kind, !.start = start],
                            ReverseSeed(start))
    /\ UNCHANGED enumVars
    /\ UNCHANGED replayVars
    /\ UNCHANGED << fwd, rep >>

\* next(g) on a reverse traversal generator that has yielded before
ReverseNext ==
    /\ trav.st = "running"
    /\ trav.level = "blocks"
    /\ trav.reverse
    /\ Len(trav.out) < MaxYield
    /\ trav' = ReverseRound(trav, trav.non_visited)
    /\ UNCHANGED enumVars
    /\ UNCHANGED replayVars
    /\ UNCHANGED << fwd, rep >>

(***************************************************************************)
(* FlowChart._dfs / _bfs: the traversal from the first block along the     *)
(* successors, and dfs_iter_heads / bfs_iter_heads on top of the block     *)
(* traversals.                                                             *)
(***************************************************************************)
\* sorted(cur_block.succs(), key=start_ea) with all but the first dropped
SortedSuccs_first_only(E, cur_block) ==
    LET s == Sorted({b \in Blocks : <<cur_block, b>> \in E})
    IN  IF s = << >> THEN s ELSE << s[1] >>

\* lines 179, 284: sorted(cur_block.succs(), key=attrgetter("start_ea"))
SortedSuccs(E, cur_block) == Sorted({b \in Blocks : <<cur_block, b>> \in E})

\* lines 180-181 with a flag that is computed anew for every block
BlockFound_not_kept(block_found, cur_block, start) ==
    start_ea(cur_block) <= start /\ start < end_ea(cur_block)

\* lines 180-181, 285-286: the flag once set stays set
BlockFound(block_found, cur_block, start) ==
    IF block_found THEN TRUE
    ELSE start_ea(cur_block) <= start /\ start < end_ea(cur_block)

\* the while loop of lines 173-184 ("dfs") or 278-289 ("bfs"), up to the
\* next yield or the return
RECURSIVE ForwardRound(_)
ForwardRound(t) ==
    IF t.non_visited = << >> THEN [t EXCEPT !.st = "done"]
    ELSE LET cur_block == Head(t.non_visited)
             rest == Tail(t.non_visited)
         IN  IF cur_block \in t.visited
             THEN ForwardRound([t EXCEPT !.non_visited = rest])
             ELSE LET found == BlockFound(t.block_found, cur_block, t.start)
                      t2 == [t EXCEPT
                               !.visited = @ \cup {cur_block},
                               !.non_visited =
                                  IF t.kind = "dfs"
                                  THEN SortedSuccs(edges, cur_block) \o rest
                                  ELSE rest \o SortedSuccs(edges, cur_block),
                               !.block_found = found]
                  IN  IF found
                      THEN [t2 EXCEPT !.st = "running",
                                      !.out = Append(@, cur_block)]
                      ELSE ForwardRound(t2)

\* the generator dfs_iter_blocks / bfs_iter_blocks hands out, before its
\* first next: lines 170-172, 275-277 forward, 195-198, 299-302 reverse
NewBlockIter(kind, reverse, start) ==
    [NewTraversal EXCEPT
       !.kind = kind, !.reverse = reverse, !.start = start,
       !.block_found = (start = None),
       !.non_visited = IF reverse THEN ReverseSeed(start) ELSE << 1 >>]

\* next() on the block generator
BlockRound(t) ==
    IF t.reverse THEN ReverseRound(t, t.non_visited) ELSE ForwardRound(t)

\* g = fc._dfs(start) or fc._bfs(start); next(g)
ForwardFirstStep(kind, start) ==
    /\ trav.st = "none"
    /\ trav' = ForwardRound(NewBlockIter(kind, FALSE, start))
    /\ UNCHANGED enumVars
    /\ UNCHANGED replayVars
    /\ UNCHANGED << fwd, rep >>

\* next(g) on a forward traversal generator that has yielded before
ForwardStep ==
    /\ trav.st = "running"
    /\ trav.level = "blocks"
    /\ ~ trav.reverse
    /\ Len(trav.out) < MaxYield
    /\ trav' = ForwardRound(trav)
    /\ UNCHANGED enumVars
    /\ UNCHANGED replayVars
    /\ UNCHANGED << fwd, rep >>

\* lines 244-257, 348-361: the heads of cur_block the instruction-level
\* generator goes through, in order
BlockHeads(cur_block, reverse, start, first_block) ==
    IF reverse
    THEN LET ea == IF StartGiven(start) /\ first_block THEN start
                   ELSE end_ea(cur_block)
         IN  Reverse(Heads(start_ea(cur_block), ea))
    ELSE LET ea == IF StartGiven(start) /\ first_block THEN start
                   ELSE start_ea(cur_block)
         IN  Heads(ea, end_ea(cur_block))

\* dfs_iter_heads / bfs_iter_heads up to the next yield: the next head of
\* the current block, or else of the next block the block generator gives
RECURSIVE HeadsRound(_)
HeadsRound(t) ==
    IF t.pending # << >>
    THEN [t EXCEPT !.st = "running", !.heads = Append(@, Head(t.pending)),
                   !.pending = Tail(@)]
    ELSE LET b == BlockRound(t)
         IN  IF b.st # "running" THEN b
             ELSE HeadsRound([b EXCEPT
                    !.pending = BlockHeads(b.out[Len(b.out)], t.reverse,
                                           t.start, t.first_block),
                    !.first_block = FALSE])

\* g = fc.dfs_iter_heads(start, reverse) or fc.bfs_iter_heads(start,
\* reverse); next(g)
HeadsFirstNext(kind, reverse, start) ==
    /\ trav.st = "none"
    /\ trav' = HeadsRound([NewBlockIter(kind, reverse, start)
                             EXCEPT !.level = "heads"])
    /\ UNCHANGED enumVars
    /\ UNCHANGED replayVars
    /\ UNCHANGED << fwd, rep >>

\* next(g) on an instruction-level generator that has yielded before
HeadsNext ==
    /\ trav.st = "running"
    /\ trav.level = "heads"
    /\ Len(trav.out) < MaxYield
    /\ trav' = HeadsRound(trav)
    /\ UNCHANGED enumVars
    /\ UNCHANGED replayVars
    /\ UNCHANGED << fwd, rep >>

(***************************************************************************)
(* kordesiireporter: the input file and the temporary objects of one       *)
(* reporter.  Strings: "" is a false value (None or empty) for a file      *)
(* name, "None" stands for data = None.                                    *)
(***************************************************************************)
MaxTemps == 4

\* __init__, lines 59-88.  created: every temporary object made so far, a
\* directory [kind |-> "dir"] or a file [kind |-> "file", dir |-> its
\* directory]; exist: those still on disk.  lastop, failed, raised: the last
\* call made on the reporter, whether an exception was raised inside the try
\* of run_decoder, and the exception the call let out to its caller.
NewReporter ==
    [disabletempcleanup |-> FALSE,
     filename |-> "", tempfilename |-> 0, managed_tempdir |-> 0,
     data |-> "", errors |-> << >>,
     created |-> << >>, exist |-> {},
     lastop |-> "", failed |-> FALSE, raised |-> ""]

\* __reset, lines 408-423: the names are forgotten, nothing is deleted
reset(r) ==
    [r EXCEPT !.filename = "", !.tempfilename = 0, !.managed_tempdir = 0,
              !.data = "", !.errors = << >>]

\* managed_tempdir, lines 118-129
managed_tempdir(r) ==
    IF r.managed_tempdir = 0
    THEN [r EXCEPT !.created = Append(@, [kind |-> "dir", dir |-> 0]),
                   !.exist = @ \cup {Len(r.created) + 1},
                   !.managed_tempdir = Len(r.created) + 1]
    ELSE r

\* filename, lines 91-109: [r, raised].  NamedTemporaryFile creates the
\* file, then tfile.write(self.data) raises TypeError for data = None and
\* line 104 is not reached
GetFilename(r) ==
    IF r.filename # "" THEN [r |-> r, raised |-> ""]
    ELSE IF r.tempfilename # 0 THEN [r |-> r, raised |-> ""]
    ELSE LET d == managed_tempdir(r)
             made == [d EXCEPT
                        !.created = Append(@, [kind |-> "file",
                                               dir |-> d.managed_tempdir]),
                        !.exist = @ \cup {Len(d.created) + 1}]
         IN  IF r.data = "None"
             THEN [r |-> made, raised |-> "TypeError"]
             ELSE [r |-> [made EXCEPT !.tempfilename = Len(d.created) + 1],
                   raised |-> ""]

\* shutil.rmtree(dir): the directory and what is in it
RemoveTree(r, dir) ==
    {i \in r.exist : i # dir /\ r.created[i].dir # dir}

\* __cleanup, lines 425-446
cleanup(r) ==
    IF r.disabletempcleanup
    THEN [r EXCEPT !.tempfilename = 0, !.managed_tempdir = 0]
    ELSE LET a == IF r.tempfilename # 0
                  THEN [r EXCEPT !.exist = @ \ {r.tempfilename}]
                  ELSE r
             b == IF a.managed_tempdir # 0
                  THEN [a EXCEPT !.exist = RemoveTree(a, a.managed_tempdir)]
                  ELSE a
         IN  [b EXCEPT !.tempfilename = 0, !.managed_tempdir = 0]

\* lines 325-329: the except clause computes hashlib.md5(data) when no file
\* name was given, which raises TypeError for data = None
HandlerRaises(filename, data) ==
    IF filename = "" /\ data = "None" THEN "TypeError" ELSE ""

\* the caller calls reporter.managed_tempdir()
CallManagedTempdir ==
    /\ Len(rep.created) + 2 <= MaxTemps
    /\ rep' = [managed_tempdir(rep) EXCEPT !.lastop = "managed_tempdir",
                                           !.failed = FALSE, !.raised = ""]
    /\ UNCHANGED enumVars
    /\ UNCHANGED replayVars
    /\ UNCHANGED << fwd, trav >>

\* the caller calls reporter.filename()
CallFilename ==
    /\ Len(rep.created) + 2 <= MaxTemps
    /\ LET f == GetFilename(rep)
       IN  rep' = [f.r EXCEPT !.lastop = "filename", !.failed = FALSE,
                              !.raised = f.raised]
    /\ UNCHANGED enumVars
    /\ UNCHANGED replayVars
    /\ UNCHANGED << fwd, trav >>

\* the caller calls reporter.run_decoder(name, filename, data), lines
\* 302-331; found: get_decoder_path finds the decoder (else ValueError, line
\* 280), idaOk: idahelper.run_ida returns (else it raises)
RunDecoder(filename, data, found, idaOk) ==
    /\ Len(rep.created) + 2 <= MaxTemps
    /\ LET r0 == reset(rep)
           r1 == IF filename # "" THEN [r0 EXCEPT !.filename = filename]
                 ELSE [r0 EXCEPT !.data = data]
           f == GetFilename(r1)
           r2 == IF found THEN f.r ELSE r1
           failure == IF ~ found THEN "ValueError"
                      ELSE IF f.raised # "" THEN f.raised
                      ELSE IF ~ idaOk THEN "Exception"
                      ELSE ""
           propagated == IF failure = "" THEN ""
                         ELSE HandlerRaises(filename, data)
           r3 == IF failure # "" /\ propagated = ""
                 THEN [r2 EXCEPT !.errors = Append(@, failure)]
                 ELSE r2
       IN  rep' = [cleanup(r3) EXCEPT !.lastop = "run_decoder",
                                      !.failed = failure # "",
                                      !.raised = propagated]
    /\ UNCHANGED enumVars
    /\ UNCHANGED replayVars
    /\ UNCHANGED << fwd, trav >>

InitOtherIdle ==
    /\ fwd = NewForward
    /\ trav = NewTraversal
    /\ rep = NewReporter

InitReplayIdle ==
    /\ ctx = << >>
    /\ ctx_ea = << >>
    /\ heap = << >>
    /\ bad = {}
    /\ queries = << >>

Init ==
    /\ edges \in SUBSET EdgeUniverse
    /\ predOrder \in {"asc", "desc"}
    /\ nodes = << >>
    /\ path_cache = [b \in Blocks |-> << >>]
    /\ gen_cache = [b \in Blocks |-> NoGenerator]
    /\ calls = [c \in 1..NumCalls |-> NewCall]
    /\ InitReplayIdle
    /\ InitOtherIdle

Next ==
    \/ \E c \in 1..NumCalls, ea \in TargetAddrs : FirstNextRaises(c, ea)
    \/ \E c \in 1..NumCalls, ea \in TargetAddrs : FirstNextCached(c, ea)
    \/ \E c \in 1..NumCalls, ea \in TargetAddrs : FirstNextBuilt(c, ea)
    \/ \E c \in 1..NumCalls : NextCached(c)
    \/ \E c \in 1..NumCalls : NextBuilt(c)

Spec == Init /\ [][Next]_vars

\* the two entry points asked for any address: a paths_to_ea generator and
\* one get_paths generator on a fresh flowchart, each run to its end
NextForward ==
    \/ \E ea \in TargetAddrs : ForwardFirstNext(ea)
    \/ ForwardNext
    \/ \E ea \in TargetAddrs : FirstNextRaises(1, ea)
    \/ \E ea \in TargetAddrs : FirstNextBuilt(1, ea)
    \/ NextBuilt(1)

SpecForward == Init /\ [][NextForward]_vars

\* the start addresses a reverse traversal is asked for
TraversalStarts == {None} \cup TargetAddrs

NextTraverse ==
    \/ \E kind \in {"dfs", "bfs"}, start \in TraversalStarts :
          ReverseFirstNext(kind, start)
    \/ ReverseNext

SpecTraverse == Init /\ [][NextTraverse]_vars

\* a caller that keeps asking a running generator for its next block
SpecTraverseFair == SpecTraverse /\ WF_vars(ReverseNext)

NextIterBlocks ==
    \/ \E kind \in {"dfs", "bfs"}, start \in TraversalStarts :
          ForwardFirstStep(kind, start)
    \/ ForwardStep

SpecIterBlocks == Init /\ [][NextIterBlocks]_vars

\* a caller that keeps asking a running generator for its next block
SpecIterBlocksFair == SpecIterBlocks /\ WF_vars(ForwardStep)

NextIterHeads ==
    \/ \E kind \in {"dfs", "bfs"}, reverse \in BOOLEAN,
          start \in TraversalStarts :
          HeadsFirstNext(kind, reverse, start)
    \/ HeadsNext

SpecIterHeads == Init /\ [][NextIterHeads]_vars

\* one reporter, with temporary cleanup enabled or disabled, and no flowchart
InitReporter ==
    /\ edges = {}
    /\ predOrder = "asc"
    /\ nodes = << >>
    /\ path_cache = [b \in Blocks |-> << >>]
    /\ gen_cache = [b \in Blocks |-> NoGenerator]
    /\ calls = [c \in 1..NumCalls |-> NewCall]
    /\ InitReplayIdle
    /\ fwd = NewForward
    /\ trav = NewTraversal
    /\ \E d \in BOOLEAN : rep = [NewReporter EXCEPT !.disabletempcleanup = d]

NextReporter ==
    \/ CallManagedTempdir
    \/ CallFilename
    \/ \E filename \in {"", "f"}, data \in {"None", "bytes"},
          found \in BOOLEAN, idaOk \in BOOLEAN :
          RunDecoder(filename, data, found, idaOk)

SpecReporter == InitReporter /\ [][NextReporter]_vars

(***************************************************************************)
(* The context replay on the paths of one flowchart: the state get_paths   *)
(* leaves after enumerating every path to the last block, then any         *)
(* cpu_context calls on the PathBlocks built.                              *)
(***************************************************************************)
Chain == { <<1, 2>>, <<2, 3>>, <<3, 4>> }

\* two paths to the last block, one from the entry block and one from a
\* block nothing leads to
Fork == { <<1, 4>>, <<2, 4>> }

ReplayGraphs == {Chain, Fork}

\* the instructions the emulator may be unable to apply: none or one in the
\* middle of the chain; on the fork, one in the entry block, which fails
\* one of the two paths
BadChoices(E) == IF E = Chain THEN { {}, {7} } ELSE { {2} }

InitReplay ==
    /\ edges \in ReplayGraphs
    /\ predOrder = "asc"
    /\ LET r == Exhaust(edges, predOrder, 4, NewGenerator(4), << >>, << >>)
       IN  /\ nodes = r.nodes
           /\ path_cache = [b \in Blocks |-> IF b = 4 THEN r.out ELSE << >>]
           /\ gen_cache = [b \in Blocks |->
                 IF b = 4 THEN [exists |-> TRUE, frames |-> << >>, visited |-> {}]
                 ELSE NoGenerator]
           /\ calls = [c \in 1..NumCalls |->
                 IF c = 1 THEN [NewCall EXCEPT !.st = "done", !.blk = 4, !.out = r.out]
                 ELSE NewCall]
           /\ ctx = [n \in 1..Len(r.nodes) |-> None]
           /\ ctx_ea = [n \in 1..Len(r.nodes) |-> None]
    /\ heap = << >>
    /\ bad \in BadChoices(edges)
    /\ queries = << >>
    /\ InitOtherIdle

NextReplay ==
    \/ \E n \in 1..Len(nodes) : \E ea \in QueryAddrs(nodes[n].bb) : CpuContext(n, ea)
    \/ \E k \in 1..Len(queries) : MutateReturned(k)

SpecReplay == InitReplay /\ [][NextReplay]_vars

(***************************************************************************)
(* Properties of the path enumerator                                       *)
(***************************************************************************)
\* the blocks of the chain of PathBlock n, from its root to n itself
RECURSIVE ChainOf(_, _)
ChainOf(N, n) ==
    IF N[n].prev = None THEN << N[n].bb >>
    ELSE Append(ChainOf(N, N[n].prev), N[n].bb)

Chains(ids) == [k \in 1..Len(ids) |-> ChainOf(nodes, ids[k])]

Range(s) == {s[k] : k \in 1..Len(s)}

NoRepeats(s) == \A j, k \in 1..Len(s) : j # k => s[j] # s[k]

Started(c) == calls[c].st \in {"cached", "gen", "done"}

\* every path of the flowchart from the entry block to block b: the
\* sequences of distinct blocks that start at block 1, end at b and follow
\* an edge at every step
SimplePaths(E, b) ==
    { p \in UNION {[1..n -> Blocks] : n \in 1..Cardinality(Blocks)} :
        /\ p[1] = 1
        /\ p[Len(p)] = b
        /\ \A k \in 1..(Len(p) - 1) : <<p[k], p[k + 1]>> \in E
        /\ \A j, k \in 1..Len(p) : j # k => p[j] # p[k] }

ForwardEdgesOnly == \A e \in edges : start_ea(e[1]) < start_ea(e[2])

EntryIsOnlySource ==
    \A b \in Blocks : (b = 1) <=> ~ \E a \in Blocks : <<a, b>> \in edges

Diamond == { <<1, 2>>, <<1, 3>>, <<2, 4>>, <<3, 4>> }

\* the only get_paths generator ever run is call 1, and it has returned
OnlyCallExhausted ==
    /\ calls[1].st = "done"
    /\ \A d \in 1..NumCalls : d # 1 => calls[d].st = "none"

\* C1: on a fresh flowchart whose edges all go to a higher start address and
\* whose only block without predecessors is the entry, a get_paths generator
\* consumed to exhaustion has yielded every path from the entry to the block
\* of the address, each exactly once, and nothing else; for the diamond
\* 1->2, 1->3, 2->4, 3->4 and block 4 these are [1,2,4] and [1,3,4].
C1_AllPathsOnce ==
    (OnlyCallExhausted /\ ForwardEdgesOnly /\ EntryIsOnlySource) =>
        /\ Range(Chains(calls[1].out)) = SimplePaths(edges, calls[1].blk)
        /\ Len(calls[1].out) = Cardinality(SimplePaths(edges, calls[1].blk))
        /\ (edges = Diamond /\ calls[1].blk = 4) =>
              Range(Chains(calls[1].out)) = { <<1, 2, 4>>, <<1, 3, 4>> }

C1_Witness ==
    /\ OnlyCallExhausted
    /\ edges = Diamond
    /\ calls[1].blk = 4
    /\ Len(calls[1].out) = 2

\* C2: every PathBlock a get_paths generator yields is a chain whose root is
\* the entry block and whose last block is the block of the requested address.
C2_RootIsEntry ==
    \A c \in 1..NumCalls : \A k \in 1..Len(calls[c].out) :
        LET chain == ChainOf(nodes, calls[c].out[k])
        IN  /\ chain[1] = 1
            /\ chain[Len(chain)] = calls[c].blk

\* C3: no get_paths generator yields the same chain of blocks twice, and no
\* list of _path_cache holds the same chain of blocks twice.
C3_NoChainTwice ==
    /\ \A c \in 1..NumCalls : NoRepeats(Chains(calls[c].out))
    /\ \A b \in Blocks : NoRepeats(Chains(path_cache[b]))

C3_Witness ==
    /\ Started(1) /\ Started(2)
    /\ calls[1].blk = calls[2].blk
    /\ calls[1].st = "done" /\ calls[2].st = "done"
    /\ Len(calls[1].out) >= 1
    /\ Len(calls[2].out) >= 3

\* call i is one of exactly two calls for its block, and has yielded nothing
\* since the other one, j, first ran
ConsumedBefore(i, j) ==
    /\ i # j
    /\ Started(i) /\ Started(j)
    /\ calls[i].blk = calls[j].blk
    /\ \A h \in 1..NumCalls :
          (h # i /\ h # j /\ Started(h)) => calls[h].blk # calls[i].blk
    /\ calls[j].seen[i] = Len(calls[i].out)

\* C4: when a first get_paths call for a block has been consumed to N paths
\* before a second call for the same block first runs, the k-th path of the
\* second call is the k-th path of the first for every k <= N, and the second
\* call yields those N before it returns.
C4_PrefixCompatible ==
    \A i, j \in 1..NumCalls :
        ConsumedBefore(i, j) =>
            /\ \A k \in 1..Len(calls[i].out) :
                  k <= Len(calls[j].out) =>
                      ChainOf(nodes, calls[j].out[k]) = ChainOf(nodes, calls[i].out[k])
            /\ calls[j].st \in {"gen", "done"} =>
                  Len(calls[j].out) >= Len(calls[i].out)

C4_Witness ==
    /\ ConsumedBefore(1, 2)
    /\ calls[1].st = "gen"
    /\ Len(calls[1].out) = 2
    /\ Len(calls[2].out) = 3

\* the PathBlocks of block b that the generator of b itself has constructed
BuiltFor(b) == {n \in 1..Len(nodes) : nodes[n].bb = b /\ nodes[n].gen = b}

\* C5: enumeration is lazy and resumable: the cache of a block holds exactly
\* the chains constructed for it so far, each once, and these are exactly the
\* chains yielded to callers; while a call is still serving cached paths it
\* has yielded the first idx cache entries themselves (the same PathBlocks,
\* not rebuilt ones), and every call has yielded cache entries in cache order.
C5_LazyResumable ==
    /\ \A b \in Blocks :
          /\ Range(path_cache[b]) = BuiltFor(b)
          /\ Len(path_cache[b]) = Cardinality(BuiltFor(b))
          /\ Range(path_cache[b]) =
                UNION {Range(calls[c].out) : c \in {d \in 1..NumCalls : calls[d].blk = b}}
    /\ \A c \in 1..NumCalls :
          /\ calls[c].st = "cached" =>
                calls[c].out = SubSeq(path_cache[calls[c].blk], 1, calls[c].idx)
          /\ Started(c) =>
                /\ Len(calls[c].out) >= calls[c].idx
                /\ SubSeq(calls[c].out, 1, calls[c].idx) =
                      SubSeq(path_cache[calls[c].blk], 1, calls[c].idx)

C5_Witness ==
    /\ ConsumedBefore(1, 2)
    /\ Len(calls[1].out) = 2
    /\ calls[2].idx = 2
    /\ calls[2].st = "gen"
    /\ Len(calls[2].out) = 3
    /\ Len(path_cache[calls[2].blk]) = 3

\* the chains get_paths yields for block b, in order, when it is the only
\* call on a fresh flowchart and is consumed to exhaustion
AloneChains(b) ==
    LET r == Exhaust(edges, predOrder, b, NewGenerator(b), << >>, << >>)
    IN  [k \in 1..Len(r.out) |-> ChainOf(r.nodes, r.out[k])]

\* C6: enumerations for different blocks are independent: a get_paths
\* generator consumed to exhaustion, no other call being for its block, has
\* yielded the sequence of chains it yields alone on a fresh flowchart.
C6_Independent ==
    \A c \in 1..NumCalls :
        ( /\ calls[c].st = "done"
          /\ \A d \in 1..NumCalls :
                (d # c /\ Started(d)) => calls[d].blk # calls[c].blk )
        => Chains(calls[c].out) = AloneChains(calls[c].blk)

\* C7: at most one PathBlock is ever created for a chain of blocks, so paths
\* that share a prefix share the PathBlocks of the prefix.
C7_OnePathBlockPerChain ==
    \A n, m \in 1..Len(nodes) :
        n # m => ChainOf(nodes, n) # ChainOf(nodes, m)

(***************************************************************************)
(* Properties of the context replay                                        *)
(***************************************************************************)
\* every instruction of block bb, in address order
FullBlock(bb) == Heads(start_ea(bb), end_ea(bb))

\* every instruction of the blocks before PathBlock n on its path, from the
\* entry, each block once
RECURSIVE AncestorTrace(_, _)
AncestorTrace(N, n) ==
    IF N[n].prev = None THEN << >>
    ELSE AncestorTrace(N, N[n].prev) \o FullBlock(N[N[n].prev].bb)

\* the context at address ea of PathBlock n: the ancestors' instructions, then
\* those of the block of n up to and including the one at ea
Expected(N, n, ea) ==
    AncestorTrace(N, n) \o
        (IF ea = None THEN FullBlock(N[n].bb)
         ELSE Sorted({h \in HeadSet : start_ea(N[n].bb) <= h /\ h <= ea}))

RECURSIVE SelfOrAncestor(_, _, _)
SelfOrAncestor(N, a, n) ==
    \/ a = n
    \/ N[n].prev # None /\ SelfOrAncestor(N, a, N[n].prev)

Returned(k) == queries[k].err = ""

\* before the k-th call, no cpu_context call on its PathBlock or on an
\* ancestor (made by a user, or by a descendant's cpu_context at line 69) was
\* stopped by the emulator
NoFailureBefore(k) ==
    \A j \in 1..(k - 1) :
        queries[j].err = "Unresolved"
            => ~ SelfOrAncestor(nodes, queries[j].at, queries[k].node)

\* C8: after any earlier successful cpu_context calls on a PathBlock and its
\* ancestors, cpu_context(ea) returns the default context with every
\* instruction of each ancestor block applied once, in path order, followed by
\* the instructions of its own block up to and including ea (the whole block
\* when no address is given).
C8_ContextValue ==
    \A k \in 1..Len(queries) :
        (Returned(k) /\ NoFailureBefore(k)) =>
            queries[k].val = Expected(nodes, queries[k].node, queries[k].ea)

C8_Witness ==
    /\ Len(queries) = 3
    /\ \A k \in 1..3 : Returned(k) /\ queries[k].node = queries[1].node
    /\ nodes[queries[1].node].bb = 3
    /\ queries[1].ea = 7
    /\ queries[2].ea = 5
    /\ queries[3].ea = None

\* C9: a failure of the emulator during cpu_context does not corrupt the
\* replay: afterwards every cached context is its base context with the
\* instructions in [start_ea, _context_ea) applied once each, and every call
\* that returns returns the value it would without the failure.
C9_FailureKeepsReplay ==
    (\E k \in 1..Len(queries) : queries[k].err = "Unresolved") =>
        /\ \A n \in 1..Len(nodes) :
              ctx[n] # None =>
                  heap[ctx[n]] = AncestorTrace(nodes, n)
                                    \o Heads(start_ea(nodes[n].bb), ctx_ea[n])
        /\ \A k \in 1..Len(queries) :
              Returned(k) =>
                  queries[k].val = Expected(nodes, queries[k].node, queries[k].ea)

\* C10: two cpu_context calls with the same address on the same PathBlock,
\* whatever cpu_context calls were made in between, return equal values that
\* are distinct objects.
C10_Idempotent ==
    \A j, k \in 1..Len(queries) :
        ( /\ j < k
          /\ Returned(j) /\ Returned(k)
          /\ queries[j].node = queries[k].node
          /\ queries[j].ea = queries[k].ea )
        => /\ queries[j].val = queries[k].val
           /\ queries[j].obj # queries[k].obj


\* the replay state of PathBlocks on which cpu_context was never called
FreshState ==
    [ctx |-> [n \in 1..Len(nodes) |-> None],
     ctx_ea |-> [n \in 1..Len(nodes) |-> None],
     heap |-> << >>]

\* C11: on a fresh PathBlock, cpu_context(addr1) followed by cpu_context(addr2)
\* with addr1 < addr2 in the same block applies, in total, as many
\* instructions as one cpu_context(addr2) on an identical fresh PathBlock
\* does; and a call repeated with the address the context is filled to
\* applies no instruction.
C11_ForwardReuse ==
    /\ ( /\ Len(queries) >= 2
         /\ queries[1].node = queries[2].node
         /\ queries[1].err = "" /\ queries[2].err = ""
         /\ queries[1].ea # None /\ queries[2].ea # None
         /\ queries[1].ea < queries[2].ea )
       => queries[1].applies + queries[2].applies
            = cpu_context(nodes, bad, queries[2].node, queries[2].ea,
                          FreshState).applies
    /\ \A k \in 1..(Len(queries) - 1) :
         ( /\ queries[k].node = queries[k + 1].node
           /\ queries[k].ea = queries[k + 1].ea
           /\ queries[k].err = "" /\ queries[k + 1].err = "" )
         => queries[k + 1].applies = 0

\* two forward calls on a PathBlock that has a parent, the second one
\* continuing where the first stopped
C11_Witness ==
    /\ Len(queries) >= 2
    /\ queries[1].node = queries[2].node
    /\ nodes[queries[1].node].prev # None
    /\ queries[1].err = "" /\ queries[2].err = ""
    /\ queries[1].ea # None /\ queries[2].ea # None
    /\ queries[1].ea < queries[2].ea
    /\ queries[1].applies > 1
    /\ queries[2].applies > 0

\* C12: what cpu_context returns is an independent copy: when a caller
\* changes a context it was given, no PathBlock's cached context or fill
\* address changes, and no context returned by another call changes.
C12_ReturnedIsCopy ==
    [][ \A k \in 1..Len(queries) :
          ( /\ queries' = queries
            /\ queries[k].err = ""
            /\ heap'[queries[k].obj] # heap[queries[k].obj] )
          => /\ ctx' = ctx
             /\ ctx_ea' = ctx_ea
             /\ \A n \in 1..Len(nodes) :
                  ctx[n] # None => heap'[ctx[n]] = heap[ctx[n]]
             /\ \A j \in 1..Len(queries) :
                  (j # k /\ queries[j].err = "")
                  => heap'[queries[j].obj] = heap[queries[j].obj] ]_vars

\* a caller has written to the context returned by the first call, and a
\* second call on the same PathBlock and address returned the same value
C12_Witness ==
    /\ Len(queries) >= 2
    /\ 1 \in Scribbled
    /\ 2 \notin Scribbled
    /\ queries[1].node = queries[2].node
    /\ queries[1].ea = queries[2].ea
    /\ queries[2].err = ""
    /\ heap[queries[2].obj] = queries[1].val
    /\ heap[ctx[queries[1].node]] = queries[1].val

\* the cpu_context call just made, in a step that makes one
LastQuery == queries'[Len(queries')]

\* C14: cpu_context with an address outside [start_ea, end_ea) of the
\* PathBlock's block raises, applies no instruction, and leaves every cached
\* context and fill address, the PathBlock's own and its ancestors', as it
\* was.
C14_OutOfBlockRaises ==
    [][ ( /\ Len(queries') = Len(queries) + 1
          /\ LastQuery.ea # None
          /\ ~ ( start_ea(nodes[LastQuery.node].bb) <= LastQuery.ea
                 /\ LastQuery.ea < end_ea(nodes[LastQuery.node].bb) ) )
        => /\ LastQuery.err = "KeyError"
           /\ LastQuery.applies = 0
           /\ ctx' = ctx
           /\ ctx_ea' = ctx_ea
           /\ heap' = heap ]_vars

\* a PathBlock with a filled context was asked for the end address of its
\* block and the call raised
C14_Witness ==
    \E k \in 2..Len(queries) :
        /\ queries[k].err = "KeyError"
        /\ queries[k].ea = end_ea(nodes[queries[k].node].bb)
        /\ queries[k - 1].node = queries[k].node
        /\ queries[k - 1].err = ""
        /\ nodes[queries[k].node].prev # None
        /\ ctx_ea[queries[k].node] # None

\* C19 (as claimed): a PathBlock's fill address, once set, never decreases
\* over any sequence of cpu_context calls.
C19_NeverDecreases ==
    [][ \A n \in 1..Len(nodes) :
          ctx_ea[n] # None => ctx_ea'[n] >= ctx_ea[n] ]_vars

\* the end address the call just made asks PathBlock n to be filled to: the
\* stop address of the call on the PathBlock it was made on, the end of the
\* block on an ancestor (line 69)
RequestedEnd(n) ==
    IF n = LastQuery.node
    THEN StopAddress(nodes[n].bb, LastQuery.ea)
    ELSE end_ea(nodes[n].bb)

\* C19 (amended): a PathBlock's fill address, once set, decreases only in a
\* cpu_context call, made on it or on a descendant, that asks for an end
\* address before the address it is filled to; every other call leaves it
\* unchanged or moves it forward.
C19_DecreasesOnlyOnNarrower ==
    [][ \A n \in 1..Len(nodes) :
          (ctx_ea[n] # None /\ ctx_ea'[n] < ctx_ea[n])
          => /\ Len(queries') = Len(queries) + 1
             /\ SelfOrAncestor(nodes, n, LastQuery.node)
             /\ RequestedEnd(n) < ctx_ea[n] ]_vars

\* a PathBlock filled to the end of its block, then asked for its first
\* instruction only, and after that filled further again
C19_Witness ==
    /\ Len(queries) = 3
    /\ queries[1].node = queries[2].node
    /\ queries[2].node = queries[3].node
    /\ queries[1].ea = None
    /\ queries[2].ea = start_ea(nodes[queries[1].node].bb)
    /\ queries[3].ea = None
    /\ \A k \in 1..3 : queries[k].err = ""
    /\ queries[2].applies > 0
    /\ ctx_ea[queries[1].node] = end_ea(nodes[queries[1].node].bb)

\* C20: in every reachable state a PathBlock's fill address is unset or
\* lies within [start_ea, end_ea] of its block, also after cpu_context on
\* the last instruction of a block that is followed by a gap or that ends
\* the function.
C20_FillAddressInBlock ==
    \A n \in 1..Len(nodes) :
        ctx_ea[n] # None
        => /\ start_ea(nodes[n].bb) <= ctx_ea[n]
           /\ ctx_ea[n] <= end_ea(nodes[n].bb)

\* C13: paths_to_ea and get_paths both fail with an out-of-range error when
\* the address is outside [function start, function end), before any block
\* is visited, any PathBlock or generator is created, or any cache entry is
\* added.
C13_OutOfRangeFails ==
    [][ /\ (fwd'.st # "none" /\ ~ InFunction(fwd'.ea))
           => /\ fwd'.st = "error"
              /\ fwd'.err = "ValueError"
              /\ fwd'.out = << >>
        /\ \A c \in 1..NumCalls :
             ( /\ calls[c].st = "none"
               /\ calls'[c].st # "none"
               /\ calls'[c].ea # None
               /\ ~ InFunction(calls'[c].ea) )
             => /\ calls'[c].st = "error"
                /\ calls'[c].err = "ValueError"
                /\ calls'[c].out = << >>
                /\ UNCHANGED << nodes, path_cache, gen_cache >> ]_vars

\* the block with the greatest start address
HighestBlock == CHOOSE b \in Blocks : \A a \in Blocks : start_ea(a) <= start_ea(b)

\* C15: a reverse traversal (depth-first or breadth-first) given no start
\* block is seeded from the block with the greatest start address: the
\* first block it yields is the highest-addressed block.
C15_SeedIsHighest ==
    (trav.st # "none" /\ trav.start = None)
    => /\ Len(trav.out) >= 1
       /\ trav.out[1] = HighestBlock

\* what holds of the blocks a reverse traversal has yielded: each but the
\* first is a predecessor, with a strictly lower start address, of a block
\* yielded before it
C16_DescendingOnly ==
    \A i \in 2..Len(trav.out) :
        \E j \in 1..(i - 1) :
            /\ << trav.out[i], trav.out[j] >> \in edges
            /\ start_ea(trav.out[i]) < start_ea(trav.out[j])

\* C16: a reverse traversal from any seed block terminates on every finite
\* flowchart, cycles and self-loops included: it follows a predecessor only
\* when its start address is strictly below that of the block it is reached
\* from, so a predecessor reached only through a back-edge is never yielded.
C16_ReverseTerminates ==
    /\ [] C16_DescendingOnly
    /\ (trav.st = "running") ~> (trav.st = "done")

\* a traversal that ended, from a block on a cycle that also loops to
\* itself: the forward predecessor was yielded, the back-edge one was not
C16_Witness ==
    /\ trav.st = "done"
    /\ trav.out[1] = 2
    /\ {<<1, 2>>, <<3, 2>>, <<2, 3>>, <<2, 2>>} \subseteq edges
    /\ Len(trav.out) = 2
    /\ trav.out[2] = 1

\* C17: with temporary cleanup enabled, whatever managed_tempdir(),
\* filename() and run_decoder() calls were made on the reporter, when the
\* last run_decoder has returned every temporary input file and managed
\* temporary directory the reporter created has been deleted.
C17_TempsDeleted ==
    (~ rep.disabletempcleanup /\ rep.lastop = "run_decoder")
    => rep.exist = {}

\* C18: run_decoder never lets a failure out: for every combination of the
\* filename and data arguments, an exception raised while resetting,
\* locating the decoder, creating the input file or running IDA becomes
\* exactly one entry of errors, and the cleanup runs afterwards.
C18_FailureRecorded ==
    rep.lastop = "run_decoder"
    => /\ rep.raised = ""
       /\ rep.failed => Len(rep.errors) = 1
       /\ ~ rep.failed => Len(rep.errors) = 0
       /\ rep.tempfilename = 0
       /\ rep.managed_tempdir = 0

\* C21: along every chain of PathBlocks _build_path has built, the start
\* addresses of the blocks strictly increase from the root to the target:
\* no block occurs twice on a chain and the chain of parents is finite and
\* acyclic, on any flowchart and whatever the caches held when it was built.
C21_ChainsAscend ==
    \A n \in 1..Len(nodes) :
        /\ nodes[n].prev # None =>
             /\ nodes[n].prev < n
             /\ start_ea(nodes[nodes[n].prev].bb) < start_ea(nodes[n].bb)
        /\ NoRepeats(ChainOf(nodes, n))

\* a chain of three blocks built on a flowchart with a back-edge and a
\* self-loop on the chain, its parent taken from the cache of an earlier
\* generator
C21_Witness ==
    /\ {<<3, 2>>, <<2, 2>>, <<1, 2>>, <<2, 3>>} \subseteq edges
    /\ \E n \in 1..Len(nodes) :
         /\ ChainOf(nodes, n) = <<1, 2, 3>>
         /\ nodes[n].gen = 3
         /\ nodes[nodes[n].prev].gen = 2

\* the blocks reachable from the blocks S along the successor edges
RECURSIVE Reach(_, _)
Reach(E, S) ==
    LET more == S \cup {b \in Blocks : \E a \in S : <<a, b>> \in E}
    IN  IF more = S THEN S ELSE Reach(E, more)

\* what holds of a forward traversal given no start address: it yields no
\* block twice, the entry block first, only blocks reachable from the entry
\* and, once it has returned, all of them
C22_ReachableOnce ==
    (trav.st # "none" /\ ~ trav.reverse /\ trav.start = None)
    => /\ NoRepeats(trav.out)
       /\ Len(trav.out) >= 1
       /\ trav.out[1] = 1
       /\ Range(trav.out) \subseteq Reach(edges, {1})
       /\ trav.st = "done" => Range(trav.out) = Reach(edges, {1})

\* C22: forward DFS and forward BFS given no start address terminate on
\* every finite flowchart, cyclic ones included, and yield exactly the
\* blocks reachable from the entry block along successor edges, each once,
\* the entry block first; so both yield the same set of blocks.
C22_ForwardTraversal ==
    /\ [] C22_ReachableOnce
    /\ (trav.st = "running") ~> (trav.st = "done")

\* a depth-first traversal that has returned, on a flowchart with a cycle
\* through the entry and a self-loop, after yielding all four blocks in an
\* order a breadth-first traversal does not give
C22_Witness ==
    /\ trav.st = "done"
    /\ trav.kind = "dfs"
    /\ trav.start = None
    /\ {<<4, 1>>, <<2, 2>>, <<1, 2>>, <<1, 3>>, <<2, 4>>} \subseteq edges
    /\ trav.out = <<1, 2, 4, 3>>

\* the blocks a forward traversal yields when run until it returns
RECURSIVE RunForward(_)
RunForward(t) ==
    LET r == ForwardRound(t)
    IN  IF r.st = "done" THEN r.out ELSE RunForward(r)

\* the suffix of the block sequence s from its first block containing ea on,
\* empty when no block of s contains ea
SuffixFrom(s, ea) ==
    LET at == {i \in 1..Len(s) : start_ea(s[i]) <= ea /\ ea < end_ea(s[i])}
    IN  IF at = {} THEN << >> ELSE SubSeq(s, Min(at), Len(s))

IsPrefix(s, t) == Len(s) <= Len(t) /\ s = SubSeq(t, 1, Len(s))

\* C23: a forward DFS/BFS given a start address yields exactly the suffix of
\* the traversal without start address that begins at the first visited
\* block containing the start address, and nothing if no visited block
\* contains it.
C23_SuffixFromStart ==
    (trav.st # "none" /\ trav.level = "blocks" /\ ~ trav.reverse
       /\ trav.start # None)
    => LET whole == RunForward(NewBlockIter(trav.kind, FALSE, None))
           expected == SuffixFrom(whole, trav.start)
       IN  /\ IsPrefix(trav.out, expected)
           /\ trav.st = "done" => trav.out = expected

\* a breadth-first traversal from an address of block 3 that has returned:
\* blocks 1 and 2 were visited before block 3 and are not yielded, block 4
\* was visited after it and is
C23_Witness ==
    /\ trav.st = "done"
    /\ trav.kind = "bfs"
    /\ ~ trav.reverse
    /\ trav.start = 5
    /\ trav.visited = {1, 2, 3, 4}
    /\ trav.out = <<3, 4>>

\* the heads of block b in the order of the direction; with a start address
\* given, those of the first block from the start address on, the start
\* address included
HeadsFromStart(b, reverse, start, first) ==
    LET all == Heads(start_ea(b), end_ea(b))
    IN  IF reverse
        THEN Reverse(IF StartGiven(start) /\ first
                     THEN SelectSeq(all, LAMBDA h : h <= start) ELSE all)
        ELSE IF StartGiven(start) /\ first
             THEN SelectSeq(all, LAMBDA h : h >= start) ELSE all

RECURSIVE HeadsOfBlocks(_, _, _, _)
HeadsOfBlocks(blocks, reverse, start, first) ==
    IF blocks = << >> THEN << >>
    ELSE HeadsFromStart(Head(blocks), reverse, start, first)
         \o HeadsOfBlocks(Tail(blocks), reverse, start, FALSE)

\* C24: dfs_iter_heads and bfs_iter_heads yield, for each block of the
\* block traversal in its order, every head in [start_ea, end_ea) once,
\* ascending when forward and descending when reverse; with a start address
\* only the first block is truncated, and the start address itself is the
\* first address yielded, forward and reverse.
C24_HeadsOfEachBlock ==
    (trav.level = "heads" /\ trav.st = "done")
    => /\ trav.heads = HeadsOfBlocks(trav.out, trav.reverse, trav.start, TRUE)
       /\ ( /\ StartGiven(trav.start)
            /\ trav.start \in HeadSet
            /\ trav.out # << >> )
          => /\ trav.heads # << >>
             /\ trav.heads[1] = trav.start

\* C26: a reverse traversal (DFS and BFS), like a forward one, yields each
\* block at most once, also when a block is reached backwards from the seed
\* along several chains of predecessors, as the entry of a diamond is.
C26_ReverseYieldsOnce ==
    (trav.level = "blocks" /\ trav.reverse) => NoRepeats(trav.out)

\* C25: a get_paths generator consumed to exhaustion has yielded every
\* chain in the cache of its target block, also when another get_paths
\* generator for the same block was advanced between its pulls: no chain
\* one of them drew from the shared _build_path generator is missed by the
\* other.
C25_NoChainMissed ==
    \A c \in 1..NumCalls :
        calls[c].st = "done"
        => Range(path_cache[calls[c].blk]) \subseteq Range(calls[c].out)

\* C27: on a fresh flowchart whose edges all go from a lower to a higher
\* start address and whose only block without predecessors is the entry,
\* for every address in a block the set of block sequences paths_to_ea
\* yields equals the set of block sequences of the chains get_paths yields.
C27_EnumeratorsAgree ==
    ( /\ fwd.st = "done"
      /\ OnlyCallExhausted
      /\ find_block(fwd.ea) = calls[1].blk
      /\ ForwardEdgesOnly
      /\ EntryIsOnlySource )
    => Range(fwd.out) = Range(Chains(calls[1].out))

\* both enumerators run to their end for the last block of a flowchart
\* with three paths to it
C27_Witness ==
    /\ fwd.st = "done"
    /\ OnlyCallExhausted
    /\ calls[1].blk = 4
    /\ find_block(fwd.ea) = 4
    /\ edges = {<<1, 2>>, <<1, 3>>, <<2, 3>>, <<2, 4>>, <<3, 4>>}
    /\ Len(fwd.out) = 3
    /\ Len(calls[1].out) = 3

====
